---- MODULE Spec2Model ----
(***************************************************************************)
(* State-machine model of ncsl_ai_energy_watch.py: one scheduled run of    *)
(* main() after another against the JSON state file.                       *)
(*                                                                         *)
(* Strings the code searches in (title, summary, category, keywords) are   *)
(* tuples of one-character strings, so that `kw in text` is substring      *)
(* containment.  A bill id f"{jurisdiction}::{bill_number}" is the pair    *)
(* <<jurisdiction, bill_number>>.  Time is counted in ticks,               *)
(* TicksPerSecond ticks to the second, so that time.time() has a           *)
(* fractional part and int(now) truncates.                                 *)
(***************************************************************************)
EXTENDS Integers, Sequences, FiniteSets, TLC

\* ------------------------------------------------------------------ bounds
MaxRuns == 2
MaxRows == 2
TicksPerSecond == 2

\* --------------------------------------------------------- configuration
PAGE_URL == "https://www.ncsl.org/technology-and-communication/artificial-intelligence-2025-legislation"

DIGEST_DAYS == 14

\* DIGEST_DAYS * 24 * 3600, the length of the guard in seconds
GuardSeconds == DIGEST_DAYS * 24 * 3600

NE_PLUS_NY ==
    << "Connecticut", "Maine", "Massachusetts", "New Hampshire",
       "Rhode Island", "Vermont", "New York" >>

CORE_UTILITY ==
    << <<"e", "n", "e", "r", "g", "y">>,
       <<"e", "l", "e", "c", "t", "r", "i", "c">>,
       <<"e", "l", "e", "c", "t", "r", "i", "c", "i", "t", "y">>,
       <<"u", "t", "i", "l", "i", "t", "y">>,
       <<"u", "t", "i", "l", "i", "t", "i", "e", "s">>,
       <<"g", "r", "i", "d">>,
       <<"t", "r", "a", "n", "s", "m", "i", "s", "s", "i", "o", "n">>,
       <<"d", "i", "s", "t", "r", "i", "b", "u", "t", "i", "o", "n">>,
       <<"r", "a", "t", "e", "p", "a", "y", "e", "r">>,
       <<"r", "a", "t", "e", " ", "p", "a", "y", "e", "r", "s">>,
       <<"r", "a", "t", "e", "m", "a", "k", "i", "n", "g">>,
       <<"r", "a", "t", "e", "-", "m", "a", "k", "i", "n", "g">>,
       <<"p", "o", "w", "e", "r", " ", "p", "l", "a", "n", "t">>,
       <<"p", "o", "w", "e", "r", " ", "g", "e", "n", "e", "r", "a", "t", "i", "o", "n">>,
       <<"r", "e", "n", "e", "w", "a", "b", "l", "e">>,
       <<"s", "o", "l", "a", "r">>,
       <<"w", "i", "n", "d">>,
       <<"b", "a", "t", "t", "e", "r", "y">>,
       <<"s", "t", "o", "r", "a", "g", "e">>,
       <<"e", "n", "e", "r", "g", "y", " ", "s", "t", "o", "r", "a", "g", "e">>,
       <<"m", "i", "c", "r", "o", "g", "r", "i", "d">>,
       <<"m", "i", "c", "r", "o", "-", "g", "r", "i", "d">>,
       <<"i", "n", "t", "e", "r", "c", "o", "n", "n", "e", "c", "t", "i", "o", "n">> >>

DATA_CENTER_INFRA ==
    << <<"d", "a", "t", "a", " ", "c", "e", "n", "t", "e", "r">>,
       <<"d", "a", "t", "a", " ", "c", "e", "n", "t", "r", "e", "s">>,
       <<"d", "a", "t", "a", "-", "c", "e", "n", "t", "e", "r">>,
       <<"a", "r", "t", "i", "f", "i", "c", "i", "a", "l", " ", "i", "n", "t", "e", "l", "l", "i", "g", "e", "n", "c", "e", " ", "i", "n", "f", "r", "a", "s", "t", "r", "u", "c", "t", "u", "r", "e">>,
       <<"a", "i", " ", "i", "n", "f", "r", "a", "s", "t", "r", "u", "c", "t", "u", "r", "e">>,
       <<"c", "o", "m", "p", "u", "t", "e", " ", "i", "n", "f", "r", "a", "s", "t", "r", "u", "c", "t", "u", "r", "e">>,
       <<"s", "e", "r", "v", "e", "r", " ", "f", "a", "r", "m">>,
       <<"h", "i", "g", "h", "-", "p", "e", "r", "f", "o", "r", "m", "a", "n", "c", "e", " ", "c", "o", "m", "p", "u", "t", "i", "n", "g">>,
       <<"h", "p", "c">>,
       <<"l", "a", "r", "g", "e", " ", "l", "o", "a", "d">>,
       <<"l", "o", "a", "d", " ", "g", "r", "o", "w", "t", "h">>,
       <<"p", "e", "a", "k", " ", "l", "o", "a", "d">>,
       <<"d", "e", "m", "a", "n", "d", " ", "g", "r", "o", "w", "t", "h">>,
       <<"g", "r", "i", "d", " ", "r", "e", "l", "i", "a", "b", "i", "l", "i", "t", "y">>,
       <<"c", "a", "p", "a", "c", "i", "t", "y", " ", "p", "l", "a", "n", "n", "i", "n", "g">>,
       <<"e", "l", "e", "c", "t", "r", "i", "c", " ", "d", "e", "m", "a", "n", "d">>,
       <<"m", "e", "g", "a", "w", "a", "t", "t">>,
       <<"m", "w">> >>

CONSUMER_PROTECTION ==
    << <<"c", "o", "n", "s", "u", "m", "e", "r", " ", "p", "r", "o", "t", "e", "c", "t", "i", "o", "n">>,
       <<"c", "o", "n", "s", "u", "m", "e", "r", " ", "r", "i", "g", "h", "t", "s">>,
       <<"a", "l", "g", "o", "r", "i", "t", "h", "m", "i", "c", " ", "p", "r", "i", "c", "i", "n", "g">>,
       <<"a", "l", "g", "o", "r", "i", "t", "h", "m", "i", "c", " ", "d", "e", "c", "i", "s", "i", "o", "n", "-", "m", "a", "k", "i", "n", "g">>,
       <<"a", "u", "t", "o", "m", "a", "t", "e", "d", " ", "d", "e", "c", "i", "s", "i", "o", "n", " ", "m", "a", "k", "i", "n", "g">>,
       <<"b", "i", "l", "l", "i", "n", "g", " ", "t", "r", "a", "n", "s", "p", "a", "r", "e", "n", "c", "y">>,
       <<"p", "u", "b", "l", "i", "c", " ", "u", "t", "i", "l", "i", "t", "y", " ", "c", "o", "m", "m", "i", "s", "s", "i", "o", "n">>,
       <<"u", "t", "i", "l", "i", "t", "y", " ", "c", "o", "m", "m", "i", "s", "s", "i", "o", "n">>,
       <<"r", "e", "g", "u", "l", "a", "t", "o", "r">>,
       <<"r", "e", "g", "u", "l", "a", "t", "i", "o", "n">>,
       <<"r", "a", "t", "e", " ", "c", "a", "s", "e">>,
       <<"t", "a", "r", "i", "f", "f">> >>

CLIMATE_POLICY ==
    << <<"e", "m", "i", "s", "s", "i", "o", "n", "s">>,
       <<"c", "a", "r", "b", "o", "n">>,
       <<"g", "r", "e", "e", "n", "h", "o", "u", "s", "e", " ", "g", "a", "s">>,
       <<"g", "h", "g">>,
       <<"c", "l", "i", "m", "a", "t", "e">>,
       <<"d", "e", "c", "a", "r", "b", "o", "n", "i", "z", "a", "t", "i", "o", "n">>,
       <<"e", "l", "e", "c", "t", "r", "i", "f", "i", "c", "a", "t", "i", "o", "n">>,
       <<"b", "u", "i", "l", "d", "i", "n", "g", " ", "p", "e", "r", "f", "o", "r", "m", "a", "n", "c", "e">>,
       <<"e", "n", "e", "r", "g", "y", " ", "e", "f", "f", "i", "c", "i", "e", "n", "c", "y">>,
       <<"d", "e", "m", "a", "n", "d", " ", "r", "e", "s", "p", "o", "n", "s", "e">> >>

ALL_KEYWORDS == CORE_UTILITY \o DATA_CENTER_INFRA \o CONSUMER_PROTECTION \o CLIMATE_POLICY

\* ------------------------------------------------------- sequence helpers
Range(s) == { s[i] : i \in 1..Len(s) }

SeqsUpTo(S, n) == UNION { [1..k -> S] : k \in 0..n }

RECURSIVE FilterSeq(_, _)
\* [x for x in s if x in keep]
FilterSeq(s, keep) ==
    IF s = << >> THEN << >>
    ELSE IF Head(s) \in keep THEN << Head(s) >> \o FilterSeq(Tail(s), keep)
         ELSE FilterSeq(Tail(s), keep)

RECURSIVE Join(_, _)
\* sep.join(parts) on character tuples
Join(parts, sep) ==
    IF parts = << >> THEN << >>
    ELSE IF Len(parts) = 1 THEN parts[1]
         ELSE parts[1] \o sep \o Join(Tail(parts), sep)

UpperChars == << "A","B","C","D","E","F","G","H","I","J","K","L","M",
                 "N","O","P","Q","R","S","T","U","V","W","X","Y","Z" >>
LowerChars == << "a","b","c","d","e","f","g","h","i","j","k","l","m",
                 "n","o","p","q","r","s","t","u","v","w","x","y","z" >>

LowerChar(c) ==
    IF \E i \in 1..Len(UpperChars) : UpperChars[i] = c
    THEN LowerChars[CHOOSE i \in 1..Len(UpperChars) : UpperChars[i] = c]
    ELSE c

\* str.lower()
Lower(s) == [ i \in 1..Len(s) |-> LowerChar(s[i]) ]

\* `kw in text` for Python strings: kw occurs as a contiguous substring
Contains(text, kw) ==
    \E i \in 0..(Len(text) - Len(kw)) :
        \A j \in 1..Len(kw) : text[i + j] = kw[j]

\* ------------------------------------------------------ the scraped page
\* Bill ids the page can show.
BillIds == { << "Connecticut", "SB1" >>, << "Texas", "HB1" >> }

\* Lexicographic order of the ids as the strings "Connecticut::SB1", ...
IdOrder == << << "Connecticut", "SB1" >>, << "Texas", "HB1" >> >>

IdRank(id) == CHOOSE i \in 1..Len(IdOrder) : IdOrder[i] = id

\* Lexicographic order of the jurisdiction names
StateOrder == << "Connecticut", "Texas" >>

StateRank(s) == CHOOSE i \in 1..Len(StateOrder) : StateOrder[i] = s

\* What the cells 2..5 of a row and the bill link can hold.  The second
\* text is relevant only through a keyword inside a longer word
\* ("wind" in "windows"); the third is not relevant.
CellTexts ==
    { [ title    |-> <<"G","r","i","d"," ","A","I"," ","S","t","u","d","y">>,
        status   |-> "Introduced",
        summary  |-> <<"L","o","a","d">>,
        category |-> <<"E","n","e","r","g","y">>,
        href     |-> "/bill/1" ],
      [ title    |-> <<"C","h","a","t","b","o","t"," ","W","i","n","d","o","w","s">>,
        status   |-> "Passed",
        summary  |-> << >>,
        category |-> <<"H","e","a","l","t","h">>,
        href     |-> "" ],
      [ title    |-> <<"C","h","a","t","b","o","t"," ","L","a","b","e","l","s">>,
        status   |-> "Introduced",
        summary  |-> << >>,
        category |-> <<"H","e","a","l","t","h">>,
        href     |-> "" ] }

\* A <tr> of the table: the number of <td> cells and their contents.
ShortTr == [ cells |-> 3, jurisdiction |-> "Texas", bill_number |-> "HB1",
             text |-> CHOOSE c \in CellTexts : c.href = "/bill/1" ]

Tr(id, c) == [ cells |-> 6, jurisdiction |-> id[1], bill_number |-> id[2], text |-> c ]

\* The Connecticut bill is shown with either relevant text, the Texas bill
\* with relevant or irrelevant text.
FullTrs ==
    { Tr(<< "Connecticut", "SB1" >>, c) : c \in { t \in CellTexts : t.status = "Passed" \/ t.href # "" } }
      \cup { Tr(<< "Texas", "HB1" >>, c) : c \in { t \in CellTexts : t.status = "Introduced" } }

\* urljoin(PAGE_URL, href)
urljoin(base, href) == << base, href >>

\* Lines 201-225: the dict built from one <tr>
RowOf(tr) ==
    [ id          |-> << tr.jurisdiction, tr.bill_number >>,
      state       |-> tr.jurisdiction,
      bill_number |-> tr.bill_number,
      title       |-> tr.text.title,
      status      |-> tr.text.status,
      summary     |-> tr.text.summary,
      category    |-> tr.text.category,
      url         |-> IF tr.text.href # "" THEN urljoin(PAGE_URL, tr.text.href)
                      ELSE << PAGE_URL >> ]

Rows == { RowOf(tr) : tr \in FullTrs }

RECURSIVE ExtractRows(_)
\* Lines 195-227: rows with fewer than 6 cells are skipped
ExtractRows(trs) ==
    IF trs = << >> THEN << >>
    ELSE IF Head(trs).cells < 6 THEN ExtractRows(Tail(trs))
         ELSE << RowOf(Head(trs)) >> \o ExtractRows(Tail(trs))

\* A page is a sequence of tables; a table has its <th> texts and its <tr>s.
DecoyTable == [ headers |-> { "Bill Number", "Sponsor" }, trs |-> << ShortTr >> ]

TargetTable(trs) ==
    [ headers |-> { "Jurisdiction and Summary", "Bill Number", "Status" }, trs |-> trs ]

IsTargetTable(table) ==
    "Jurisdiction and Summary" \in table.headers /\ "Bill Number" \in table.headers

TrSeqs ==
    SeqsUpTo(FullTrs, MaxRows)
      \cup { << ShortTr >> \o s : s \in SeqsUpTo(FullTrs, MaxRows - 1) }
      \cup { s \o << ShortTr >> : s \in SeqsUpTo(FullTrs, MaxRows - 1) }

Pages ==
    { << >>, << DecoyTable >> }
      \cup { << TargetTable(trs) >> : trs \in SeqsUpTo(FullTrs, MaxRows) }
      \cup { << DecoyTable, TargetTable(trs) >> : trs \in TrSeqs \ SeqsUpTo(FullTrs, MaxRows) }

\* What the two HTTP clients can answer.
HttpResults == { "200", "403", "exception" }

\* fetch_html: "html" when a page came back, otherwise the error raised
fetch_html(cloudscraper, scraperResult, requestsResult) ==
    IF cloudscraper /\ scraperResult = "exception" THEN "network_error"
    ELSE IF cloudscraper /\ scraperResult = "200" THEN "html"
    ELSE IF requestsResult = "exception" THEN "network_error"
    ELSE IF requestsResult = "200" THEN "html"
    ELSE "http_error"

\* fetch_table_rows: the status of the fetch and the rows it returns
fetch_table_rows(cloudscraper, scraperResult, requestsResult, page) ==
    LET got == fetch_html(cloudscraper, scraperResult, requestsResult)
        matching == { i \in 1..Len(page) : IsTargetTable(page[i]) }
    IN  IF got # "html" THEN [ status |-> got, rows |-> << >> ]
        ELSE IF matching = {} THEN [ status |-> "no_table", rows |-> << >> ]
        ELSE LET first == CHOOSE i \in matching : \A j \in matching : i <= j
             IN  [ status |-> "ok", rows |-> ExtractRows(page[first].trs) ]

\* ------------------------------------------------------ relevance filter
is_energy_relevant(row) ==
    LET text == Lower(Join(<< row.title, row.summary, row.category >>, << " " >>))
    IN  \E k \in 1..Len(ALL_KEYWORDS) : Contains(text, Lower(ALL_KEYWORDS[k]))

RelevantRows == { r \in Rows : is_energy_relevant(r) }

filter_relevant(rows) == FilterSeq(rows, RelevantRows)

IdsOf(rows) == { rows[i].id : i \in 1..Len(rows) }

\* --------------------------------------------------------- the state file
\* Conditions of STATE_FILE on disk:
\*   "missing"     os.path.exists is false
\*   "not_json"    text json.load rejects (empty, truncated, garbage)
\*   "unreadable"  open/read fails (permissions, a directory, bytes that
\*                 are not UTF-8): an error other than JSONDecodeError
\*   "not_object"  valid JSON that is not an object, such as []
\*   "state"       the object save_state writes
MissingFile    == [ kind |-> "missing",    seen_ids |-> << >>, last_digest |-> 0 ]
NotJsonFile    == [ kind |-> "not_json",   seen_ids |-> << >>, last_digest |-> 0 ]
UnreadableFile == [ kind |-> "unreadable", seen_ids |-> << >>, last_digest |-> 0 ]
NotObjectFile  == [ kind |-> "not_object", seen_ids |-> << >>, last_digest |-> 0 ]

StateFileOf(ids, ts) == [ kind |-> "state", seen_ids |-> ids, last_digest |-> ts ]

RECURSIVE sorted(_)
\* sorted(seen_ids): the ids as a list in ascending string order
sorted(S) ==
    IF S = {} THEN << >>
    ELSE LET m == CHOOSE x \in S : \A y \in S : IdRank(x) <= IdRank(y)
         IN  << m >> \o sorted(S \ { m })

\* int(x) for a time held in ticks: whole seconds, fraction dropped
int(ticks) == ticks \div TicksPerSecond

\* load_state: what it returns, or that it raises
load_state(f) ==
    IF f.kind = "missing" THEN [ raises |-> FALSE, value |-> StateFileOf(<< >>, 0) ]
    ELSE IF f.kind = "not_json" THEN [ raises |-> FALSE, value |-> StateFileOf(<< >>, 0) ]
    ELSE IF f.kind = "unreadable" THEN [ raises |-> TRUE, value |-> f ]
    ELSE [ raises |-> FALSE, value |-> f ]

\* The file once open(STATE_FILE, "w") has run and nothing is written yet
OpenedForWrite == NotJsonFile

\* The file once json.dump has written the whole state
save_state(seen, ts) == StateFileOf(sorted(seen), int(ts))

\* ------------------------------------------------------------- the digest
Line(kind, a, b) == [ kind |-> kind, a |-> a, b |-> b ]

\* time.strftime("%Y-%m-%d", ...): the calendar day of the timestamp
strftime(ts) == ts \div 86400

BillsOfState(rows, s) == FilterSeq(rows, { r \in Range(rows) : r.state = s })

\* group_by_state: the NE+NY states with bills in NE_PLUS_NY order, and the
\* other states with bills
TopStates(rows) ==
    FilterSeq(NE_PLUS_NY, { r.state : r \in Range(rows) })

OtherStates(rows) ==
    { r.state : r \in Range(rows) } \ Range(NE_PLUS_NY)

RECURSIVE SortedStates(_)
\* sorted(others.keys())
SortedStates(S) ==
    IF S = {} THEN << >>
    ELSE LET m == CHOOSE x \in S : \A y \in S : StateRank(x) <= StateRank(y)
         IN  << m >> \o SortedStates(S \ { m })

RECURSIVE BillLines(_)
\* Lines 300-303 and 314-317: three lines per bill
BillLines(bills) ==
    IF bills = << >> THEN << >>
    ELSE << Line("bill", Head(bills).bill_number, Head(bills).title),
            Line("summary", Head(bills).summary, Head(bills).status),
            Line("url", Head(bills).url, "") >>
         \o BillLines(Tail(bills))

RECURSIVE StateSections(_, _)
\* For each state: blank line, name, underline, its bills in table order
StateSections(states, rows) ==
    IF states = << >> THEN << >>
    ELSE << Line("blank", "", ""),
            Line("state", Head(states), ""),
            Line("underline", Head(states), "") >>
         \o BillLines(BillsOfState(rows, Head(states)))
         \o StateSections(Tail(states), rows)

format_email(rows, last_digest_ts) ==
    LET head == << Line("title", "", ""), Line("page", PAGE_URL, ""), Line("blank", "", ""),
                   ( IF last_digest_ts # 0
                     THEN Line("since", strftime(last_digest_ts), "")
                     ELSE Line("first", "", "") ),
                   Line("blank", "", ""),
                   Line("count", Len(rows), ""),
                   Line("blank", "", "") >>
        top    == TopStates(rows)
        others == SortedStates(OtherStates(rows))
    IN  IF rows = << >> THEN head \o << Line("no_new", "", "") >>
        ELSE head
             \o ( IF top # << >>
                  THEN << Line("section", "New England + New York", "") >>
                       \o StateSections(top, rows) \o << Line("blank", "", "") >>
                  ELSE << >> )
             \o ( IF others # << >>
                  THEN << Line("section", "Other States", "") >>
                       \o StateSections(others, rows) \o << Line("blank", "", "") >>
                  ELSE << >> )

\* Lines 367-368
SubjectOf(rows) ==
    IF rows # << >> THEN << "new_bills", Len(rows) >> ELSE << "no_new_bills", 0 >>

\* ---------------------------------------------------------- the notifier
Unset == "<unset>"

\* os.environ.get(name, default)
EnvGet(value, default) == IF value = Unset THEN default ELSE value

\* s.strip() on the pieces an address list can hold
strip(s) == IF s = " " THEN "" ELSE IF s = " b@example.org" THEN "b@example.org" ELSE s

RECURSIVE ParseEmailTo(_)
\* [s.strip() for s in pieces if s.strip()], pieces = value.split(",")
ParseEmailTo(pieces) ==
    IF pieces = << >> THEN << >>
    ELSE IF strip(Head(pieces)) # "" THEN << strip(Head(pieces)) >> \o ParseEmailTo(Tail(pieces))
         ELSE ParseEmailTo(Tail(pieces))

\* The environment of one process, as far as mail goes.  EMAIL_TO is given
\* by its comma-separated pieces; unset reads as "", one empty piece.
MailEnv(host, user, pass, to) ==
    [ SMTP_HOST |-> host, SMTP_USER |-> user, SMTP_PASS |-> pass, EMAIL_TO |-> to ]

MailEnvs ==
    { MailEnv("smtp.example.org", "watch@example.org", "secret", << "a@example.org", " b@example.org" >>),
      MailEnv(Unset, "watch@example.org", "secret", << "a@example.org" >>),
      MailEnv("", "watch@example.org", "secret", << "a@example.org" >>),
      MailEnv("smtp.example.org", Unset, "secret", << "a@example.org" >>),
      MailEnv("smtp.example.org", "watch@example.org", "", << "a@example.org" >>),
      MailEnv("smtp.example.org", "watch@example.org", "secret", << " ", "" >>) }

\* Lines 40-45 and 324: all of host, user, password and recipients truthy
Configured(env) ==
    /\ EnvGet(env.SMTP_HOST, "smtp.office365.com") # ""
    /\ EnvGet(env.SMTP_USER, "") # ""
    /\ EnvGet(env.SMTP_PASS, "") # ""
    /\ ParseEmailTo(env.EMAIL_TO) # << >>

\* What the SMTP conversation can do.
Transports == { "ok", "connect_error", "starttls_error", "login_error", "sendmail_error" }

\* Faulty variant of send_email: an unconfigured notifier raises instead of returning
send_email_RaiseUnconfigured(env, transport) ==
    IF ~Configured(env) THEN "error"
    ELSE IF transport = "ok" THEN "sent"
    ELSE "error"

\* send_email: "not_configured" (logged no-op), "sent", or "error" (raises)
send_email(env, transport) ==
    IF ~Configured(env) THEN "not_configured"
    ELSE IF transport = "ok" THEN "sent"
    ELSE "error"

\* ------------------------------------------------------------------ state
VARIABLES
    file,         \* STATE_FILE on disk
    clock,        \* wall-clock time in ticks
    runs,         \* number of runs of main() started so far
    pc,           \* where the current run is: load, gate, fetch, diff, send,
                  \* save, write, done
    FORCE_EMAIL,  \* the flag read from the environment of this process
    seen_ids, last_digest, now,      \* locals of main(), lines 342-345
    all_rows, relevant, new_rows,    \* lines 353-361
    mail,         \* subject and body handed to send_email, << >> if none
    mail_env,     \* the SMTP_* and EMAIL_TO environment send_email ran with
    new_seen,     \* line 375
    called,       \* which of fetch_table_rows, send_email, save_state ran
    fetchStatus,  \* "none", "ok", or why fetch_table_rows raised
    sendResult,   \* "none", or what send_email did
    outcome,      \* how the run ended ("running" while it has not)
    raised,       \* where an exception left main() uncaught ("none" if not)
    fileBefore,   \* history: the file when the run started
    lastSent,     \* history: time of the last run before this one that delivered a
                  \* digest and saved state, if it had FORCE_EMAIL unset, else 0
    digested,     \* history: ids listed in digests of earlier runs that saved state
    retry         \* history: whether the send of the previous run failed, and
                  \* the state that run had loaded

vars == << file, clock, runs, pc, FORCE_EMAIL, seen_ids, last_digest, now,
           all_rows, relevant, new_rows, mail, mail_env, new_seen, called, fetchStatus,
           sendResult, outcome, raised, fileBefore, lastSent, digested, retry >>

locals == << seen_ids, last_digest, now, all_rows, relevant, new_rows, mail, mail_env,
             new_seen >>
history == << fileBefore, lastSent, digested, retry >>

\* The first run happens at StartClock, a time with a fractional second
\* (day 5000 of the epoch keeps every time within 32 bits).
StartClock == 5000 * 86400 * TicksPerSecond + 1

\* Time between two runs: a moment, or one tick less than the guard.
Deltas == { 1, GuardSeconds * TicksPerSecond - 1 }

NoRetry == [ failed |-> FALSE, seen_ids |-> {}, last_digest |-> 0 ]

\* mail_env before send_email has run
NoEnv == MailEnv("-", "-", "-", << >>)

InitFiles ==
    { MissingFile, NotJsonFile, UnreadableFile, NotObjectFile }
      \cup { StateFileOf(sorted(S), ts) :
               S \in { { << "Texas", "HB1" >> } },
               ts \in { 0, int(StartClock) } }

Init ==
    /\ file \in InitFiles
    /\ clock = StartClock
    /\ runs = 0
    /\ pc = "done"
    /\ FORCE_EMAIL = FALSE
    /\ seen_ids = {} /\ last_digest = 0 /\ now = 0
    /\ all_rows = << >> /\ relevant = << >> /\ new_rows = << >>
    /\ mail = << >> /\ mail_env = NoEnv /\ new_seen = {}
    /\ called = {}
    /\ fetchStatus = "none" /\ sendResult = "none"
    /\ outcome = "none" /\ raised = "none"
    /\ fileBefore = file
    /\ lastSent = 0 /\ digested = {}
    /\ retry = NoRetry

\* The scheduler starts a new process: the environment is read (line 47),
\* time has passed since the previous run.
Start ==
    /\ pc = "done"
    /\ runs < MaxRuns
    /\ runs' = runs + 1
    /\ \E d \in Deltas : clock' = IF runs = 0 THEN clock ELSE clock + d
    /\ FORCE_EMAIL' \in BOOLEAN
    /\ pc' = "load"
    /\ seen_ids' = {} /\ last_digest' = 0 /\ now' = 0
    /\ all_rows' = << >> /\ relevant' = << >> /\ new_rows' = << >>
    /\ mail' = << >> /\ mail_env' = NoEnv /\ new_seen' = {}
    /\ called' = {}
    /\ fetchStatus' = "none" /\ sendResult' = "none"
    /\ outcome' = "running" /\ raised' = "none"
    /\ fileBefore' = file
    /\ lastSent' = IF sendResult = "sent" /\ outcome = "saved"
                   THEN ( IF FORCE_EMAIL THEN 0 ELSE now )
                   ELSE lastSent
    /\ digested' = IF outcome = "saved" THEN digested \cup IdsOf(new_rows) ELSE digested
    /\ retry' = IF raised = "send_email"
                THEN [ failed |-> TRUE, seen_ids |-> seen_ids, last_digest |-> last_digest ]
                ELSE NoRetry
    /\ UNCHANGED file

\* Lines 341-345: load the state, read the clock
LoadState ==
    /\ pc = "load"
    /\ LET st == load_state(file)
       IN  IF st.raises
           THEN /\ pc' = "done" /\ outcome' = "raised" /\ raised' = "load_state"
                /\ UNCHANGED << seen_ids, last_digest, now >>
           ELSE IF st.value.kind # "state"
           THEN \* state.get on a value that is not a dict
                /\ pc' = "done" /\ outcome' = "raised" /\ raised' = "main"
                /\ UNCHANGED << seen_ids, last_digest, now >>
           ELSE /\ seen_ids' = Range(st.value.seen_ids)
                /\ last_digest' = st.value.last_digest
                /\ now' = clock
                /\ pc' = "gate"
                /\ UNCHANGED << outcome, raised >>
    /\ UNCHANGED << file, clock, runs, FORCE_EMAIL, all_rows, relevant, new_rows, mail,
                    mail_env, new_seen, called, fetchStatus, sendResult, history >>

\* Faulty variant of GuardHolds: the comparison of line 348 turned round
GuardHolds_Flipped ==
    /\ ~FORCE_EMAIL
    /\ last_digest # 0
    /\ now - last_digest * TicksPerSecond > GuardSeconds * TicksPerSecond

\* Lines 347-350: the DIGEST_DAYS guard.  now and last_digest are seconds;
\* now is held in ticks.
GuardHolds ==
    /\ ~FORCE_EMAIL
    /\ last_digest # 0
    /\ now - last_digest * TicksPerSecond < GuardSeconds * TicksPerSecond

Gate ==
    /\ pc = "gate"
    /\ IF GuardHolds
       THEN pc' = "done" /\ outcome' = "skipped"
       ELSE pc' = "fetch" /\ UNCHANGED outcome
    /\ UNCHANGED << file, clock, runs, FORCE_EMAIL, locals, called, fetchStatus,
                    sendResult, raised, history >>

\* Faulty variant of Fetch: a failed fetch is logged and the run goes on with no rows
Fetch_ContinueOnError ==
    /\ pc = "fetch"
    /\ \E cloudscraper \in BOOLEAN, scraperResult \in HttpResults,
          requestsResult \in HttpResults :
       \E page \in IF fetch_html(cloudscraper, scraperResult, requestsResult) = "html"
                   THEN Pages ELSE { << >> } :
         LET got == fetch_table_rows(cloudscraper, scraperResult, requestsResult, page)
         IN  /\ fetchStatus' = got.status
             /\ all_rows' = got.rows
             /\ pc' = "diff"
    /\ called' = called \cup { "fetch_table_rows" }
    /\ UNCHANGED << file, clock, runs, FORCE_EMAIL, seen_ids, last_digest, now, relevant,
                    new_rows, mail, mail_env, new_seen, sendResult, outcome, raised,
                    history >>

\* Lines 352-356: fetch the table; any exception is logged and ends the run
Fetch ==
    /\ pc = "fetch"
    /\ \E cloudscraper \in BOOLEAN, scraperResult \in HttpResults,
          requestsResult \in HttpResults :
       \E page \in IF fetch_html(cloudscraper, scraperResult, requestsResult) = "html"
                   THEN Pages ELSE { << >> } :
         LET got == fetch_table_rows(cloudscraper, scraperResult, requestsResult, page)
         IN  /\ fetchStatus' = got.status
             /\ IF got.status = "ok"
                THEN all_rows' = got.rows /\ pc' = "diff" /\ UNCHANGED outcome
                ELSE all_rows' = << >> /\ pc' = "done" /\ outcome' = "fetch_error"
    /\ called' = called \cup { "fetch_table_rows" }
    /\ UNCHANGED << file, clock, runs, FORCE_EMAIL, seen_ids, last_digest, now, relevant,
                    new_rows, mail, mail_env, new_seen, sendResult, raised, history >>

\* Faulty variant of Diff: every relevant row counts as new, seen or not
Diff_NoSeenFilter ==
    /\ pc = "diff"
    /\ relevant' = filter_relevant(all_rows)
    /\ new_rows' = relevant'
    /\ IF new_rows' = << >> /\ ~FORCE_EMAIL
       THEN pc' = "done" /\ outcome' = "no_new"
       ELSE pc' = "send" /\ UNCHANGED outcome
    /\ UNCHANGED << file, clock, runs, FORCE_EMAIL, seen_ids, last_digest, now, all_rows,
                    mail, mail_env, new_seen, called, fetchStatus, sendResult, raised,
                    history >>

\* Faulty variant of Diff: the early return of lines 363-365 is missing
Diff_NoEarlyReturn ==
    /\ pc = "diff"
    /\ relevant' = filter_relevant(all_rows)
    /\ new_rows' = FilterSeq(relevant', { r \in Range(relevant') : r.id \notin seen_ids })
    /\ pc' = "send"
    /\ UNCHANGED << file, clock, runs, FORCE_EMAIL, seen_ids, last_digest, now, all_rows,
                    mail, mail_env, new_seen, called, fetchStatus, sendResult, outcome,
                    raised, history >>

\* Lines 358-365: filter, diff against the seen ids, stop if nothing is new
Diff ==
    /\ pc = "diff"
    /\ relevant' = filter_relevant(all_rows)
    /\ new_rows' = FilterSeq(relevant', { r \in Range(relevant') : r.id \notin seen_ids })
    /\ IF new_rows' = << >> /\ ~FORCE_EMAIL
       THEN pc' = "done" /\ outcome' = "no_new"
       ELSE pc' = "send" /\ UNCHANGED outcome
    /\ UNCHANGED << file, clock, runs, FORCE_EMAIL, seen_ids, last_digest, now, all_rows,
                    mail, mail_env, new_seen, called, fetchStatus, sendResult, raised,
                    history >>

\* Faulty variant of Send: an SMTP error is caught and logged, and the run goes on
Send_SwallowError ==
    /\ pc = "send"
    /\ mail' = << SubjectOf(new_rows), format_email(new_rows, last_digest) >>
    /\ called' = called \cup { "send_email" }
    /\ \E env \in MailEnvs, transport \in Transports :
         /\ mail_env' = env
         /\ sendResult' = send_email(env, transport)
    /\ pc' = "save"
    /\ UNCHANGED << file, clock, runs, FORCE_EMAIL, seen_ids, last_digest, now, all_rows,
                    relevant, new_rows, new_seen, fetchStatus, outcome, raised, history >>

\* Lines 367-372: format the digest and hand it to send_email; an SMTP
\* error is not caught anywhere
Send ==
    /\ pc = "send"
    /\ mail' = << SubjectOf(new_rows), format_email(new_rows, last_digest) >>
    /\ called' = called \cup { "send_email" }
    /\ \E env \in MailEnvs, transport \in Transports :
         /\ mail_env' = env
         /\ sendResult' = send_email(env, transport)
         /\ IF sendResult' = "error"
            THEN pc' = "done" /\ outcome' = "raised" /\ raised' = "send_email"
            ELSE pc' = "save" /\ UNCHANGED << outcome, raised >>
    /\ UNCHANGED << file, clock, runs, FORCE_EMAIL, seen_ids, last_digest, now, all_rows,
                    relevant, new_rows, new_seen, fetchStatus, history >>

\* Faulty variant of SaveOpen: the new seen set is the relevant ids alone
SaveOpen_OnlyRelevant ==
    /\ pc = "save"
    /\ new_seen' = IdsOf(relevant)
    /\ called' = called \cup { "save_state" }
    /\ file' = OpenedForWrite
    /\ pc' = "write"
    /\ UNCHANGED << clock, runs, FORCE_EMAIL, seen_ids, last_digest, now, all_rows,
                    relevant, new_rows, mail, mail_env, fetchStatus, sendResult, outcome,
                    raised, history >>

\* Lines 375-376 and 136-140: the new seen set; save_state opens the file
\* for writing, which empties it
SaveOpen ==
    /\ pc = "save"
    /\ new_seen' = seen_ids \cup IdsOf(relevant)
    /\ called' = called \cup { "save_state" }
    /\ file' = OpenedForWrite
    /\ pc' = "write"
    /\ UNCHANGED << clock, runs, FORCE_EMAIL, seen_ids, last_digest, now, all_rows,
                    relevant, new_rows, mail, mail_env, fetchStatus, sendResult, outcome,
                    raised, history >>

\* Line 141: json.dump writes the state and the file is closed
SaveWrite ==
    /\ pc = "write"
    /\ file' = save_state(new_seen, now)
    /\ pc' = "done" /\ outcome' = "saved"
    /\ UNCHANGED << clock, runs, FORCE_EMAIL, locals, called, fetchStatus, sendResult,
                    raised, history >>

\* The process is killed (the job is cancelled, the runner dies) wherever
\* it is; the file stays as the run left it
Kill ==
    /\ pc # "done"
    /\ pc' = "done" /\ outcome' = "killed"
    /\ UNCHANGED << file, clock, runs, FORCE_EMAIL, locals, called, fetchStatus,
                    sendResult, raised, history >>

Next ==
    \/ Start
    \/ LoadState
    \/ Gate
    \/ Fetch
    \/ Diff
    \/ Send
    \/ SaveOpen
    \/ SaveWrite

Spec == Init /\ [][Next]_vars

NextKill == Next \/ Kill

SpecKill == Init /\ [][NextKill]_vars

\* =================================================================== claims
\* The seen ids a run loads from file f (none if the file does not load).
FileSeen(f) ==
    IF load_state(f).raises \/ load_state(f).value.kind # "state" THEN {}
    ELSE Range(load_state(f).value.seen_ids)

\* The run has loaded its state (lines 341-345 are behind it).
Loaded == pc \notin { "load" } /\ outcome \notin { "none", "killed" }
          /\ raised \notin { "load_state", "main" }

\* The run is past the DIGEST_DAYS guard, whichever way it went.
PastGate == Loaded /\ pc # "gate"

\* The run has computed relevant and new_rows (line 361 is behind it).
Diffed == PastGate /\ fetchStatus = "ok" /\ pc # "diff"

\* The bill ids a digest body lists, in the order it lists them: a bill
\* line belongs to the state whose heading precedes it.
RECURSIVE ListedFrom(_, _)
ListedFrom(lines, state) ==
    IF lines = << >> THEN << >>
    ELSE IF Head(lines).kind = "state" THEN ListedFrom(Tail(lines), Head(lines).a)
    ELSE IF Head(lines).kind = "bill"
         THEN << << state, Head(lines).a >> >> \o ListedFrom(Tail(lines), state)
    ELSE ListedFrom(Tail(lines), state)

Listed == IF mail = << >> THEN << >> ELSE ListedFrom(mail[2], "")

NewIdSeq == [ i \in 1..Len(new_rows) |-> new_rows[i].id ]

\* ---- C1
\* C1: in a run that reaches the diff, a relevant record is reported as new
\* exactly when its id is not in the seen set loaded from the state file;
\* every id listed in the digest of an earlier run that saved state is in
\* the seen set each later run loads and is not reported as new again.
C1_SeenIdPolicy ==
    /\ Diffed =>
         /\ \A i \in 1..Len(relevant) :
              (relevant[i] \in Range(new_rows)) <=> (relevant[i].id \notin FileSeen(fileBefore))
         /\ Range(new_rows) \subseteq Range(relevant)
         /\ IdsOf(new_rows) \cap digested = {}
    /\ (Loaded /\ outcome = "running") => digested \subseteq seen_ids
    /\ (pc = "done" /\ outcome # "none") => digested \subseteq FileSeen(file)

\* A later run meets, as a relevant row, a bill an earlier digest listed,
\* and does not report it.
C1_Witness ==
    /\ Diffed /\ runs = 2 /\ pc = "done"
    /\ \E r \in Range(relevant) : r.id \in digested /\ r \notin Range(new_rows)

\* ---- C2
\* C2: when send_email raises during the send, the run ends without
\* save_state and the state file is what it was before the run; the next
\* run loads the same seen ids and last_digest and computes, from the rows
\* it fetches, the new records the failed run would compute from them.
C2_FailedSendKeepsState ==
    /\ sendResult = "error" =>
         /\ pc = "done"
         /\ "save_state" \notin called
         /\ file = fileBefore
    /\ (retry.failed /\ Loaded) =>
         /\ seen_ids = retry.seen_ids
         /\ last_digest = retry.last_digest
         /\ Diffed =>
              new_rows = FilterSeq(all_rows, { r \in RelevantRows : r.id \notin retry.seen_ids })

\* The run after a failed send reports new bills again.
C2_Witness == retry.failed /\ Diffed /\ new_rows # << >> /\ retry.seen_ids # {}

\* ---- C3
\* C3: when fetch_table_rows fails (network error, no 200 from any client,
\* no table with both headers), the run ends without send_email and
\* without save_state, and the state file is unchanged.
C3_FetchFailureAborts ==
    fetchStatus \in { "network_error", "http_error", "no_table" } =>
        /\ pc = "done" /\ outcome = "fetch_error"
        /\ called = { "fetch_table_rows" }
        /\ file = fileBefore

\* A forced run finds no legislation table on the page.
C3_Witness == fetchStatus = "no_table" /\ FORCE_EMAIL /\ pc = "done" /\ file.kind = "state"

\* ---- C4
\* The guard as the docstring words it: FORCE_EMAIL unset, a digest was
\* sent before and fewer than DIGEST_DAYS days have passed since.
WithinDigestDays ==
    /\ ~FORCE_EMAIL
    /\ last_digest # 0
    /\ now < (last_digest + DIGEST_DAYS * 24 * 3600) * TicksPerSecond

Suppressed ==
    (PastGate /\ WithinDigestDays) =>
        /\ pc = "done" /\ outcome = "skipped"
        /\ called = {}
        /\ file = fileBefore

C5_LoadNeverFails == raised \notin { "load_state", "main" }

\* ---- C6
\* C6: after a run is killed, the state file is the file the run found or
\* the complete new state, never an empty or partial file.
C6_CrashSafe ==
    (pc = "done" /\ outcome = "killed") =>
        \/ file = fileBefore
        \/ file = StateFileOf(sorted(seen_ids \cup IdsOf(relevant)), int(now))

\* ---- C7
\* C7: no exception propagates out of main(), whatever step failed.
C7_NothingPropagates == outcome # "raised"

\* ---- C8
\* C8 as claimed: a run that reaches the diff with nothing new and without
\* FORCE_EMAIL does not invoke send_email and still calls save_state.
C8_Original ==
    (Diffed /\ pc = "done" /\ new_rows = << >> /\ ~FORCE_EMAIL) =>
        /\ "send_email" \notin called
        /\ "save_state" \in called

\* C8 amended: such a run invokes neither send_email nor save_state and
\* leaves the state file unchanged.
C8_NothingNewNothingSaved ==
    (Diffed /\ new_rows = << >> /\ ~FORCE_EMAIL) =>
        /\ pc = "done" /\ outcome = "no_new"
        /\ "send_email" \notin called
        /\ "save_state" \notin called
        /\ file = fileBefore

\* A run finds relevant bills, all of them seen, and stops.
C8_Witness ==
    /\ Diffed /\ new_rows = << >> /\ ~FORCE_EMAIL
    /\ relevant # << >> /\ outcome = "no_new"

\* ---- C9
\* One of SMTP_HOST, SMTP_USER, SMTP_PASS, EMAIL_TO is missing: the value
\* the module holds for it is empty.
NotifierUnconfigured ==
    /\ mail_env # NoEnv
    /\ \/ EnvGet(mail_env.SMTP_HOST, "smtp.office365.com") = ""
       \/ mail_env.SMTP_USER \in { Unset, "" }
       \/ mail_env.SMTP_PASS \in { Unset, "" }
       \/ \A i \in 1..Len(mail_env.EMAIL_TO) : mail_env.EMAIL_TO[i] \in { "", " " }

SavedFromValid == pc = "done" /\ outcome = "saved" /\ fileBefore.kind = "state"

\* Each saved seen set contains the loaded one, and every id added is
\* listed in the digest body the run handed to send_email.
GrowsByListed ==
    SavedFromValid =>
        /\ FileSeen(fileBefore) \subseteq FileSeen(file)
        /\ "send_email" \in called
        /\ (FileSeen(file) \ FileSeen(fileBefore)) \subseteq Range(Listed)
        /\ Range(Listed) = IdsOf(new_rows)

\* Where the digest puts a state: NE_PLUS_NY in list order, then the rest
\* in alphabetical order.
GroupRank(s) ==
    IF s \in Range(NE_PLUS_NY) THEN CHOOSE i \in 1..Len(NE_PLUS_NY) : NE_PLUS_NY[i] = s
    ELSE Len(NE_PLUS_NY) + StateRank(s)

IdsOfState(ids, s) == FilterSeq(ids, { id \in Range(ids) : id[1] = s })

====
